---- MODULE Spec2Model ----
(***************************************************************************)
(* Model of hive's entry point (hive.go): package-level flag variables,    *)
(* main, and mainInHost.  One run of the program is one behaviour; each    *)
(* action is one step of main / mainInHost between two calls to a          *)
(* collaborator (docker client, build cacher, client resolver, the three   *)
(* category runners, the DAG generator, the JSON encoder).                 *)
(*                                                                         *)
(* Durations are counted in seconds (time.Second = 1, time.Minute = 60).   *)
(***************************************************************************)
EXTENDS Integers, Sequences, FiniteSets, TLC

\* ------------------------------------------------------------------ bounds
\* -dockertimeout is drawn from {default} \cup 1..MaxDockerTimeout
MaxDockerTimeout == 1
\* -timeoutcheck is drawn from {default} \cup 1..MaxTimeoutCheck
MaxTimeoutCheck == 1

\* ------------------------------------------------------- program constants
DefaultDockerTimeout == 10
DefaultTimeoutCheck == 30
Second == 1
Minute == 60
DefaultClientPattern == ":master"
DefaultValidatorPattern == "."
SmokeSelection == "smoke/"

\* ------------------------------------------------------------ input spaces
\* category patterns: empty (category not requested) or a matching regexp
Patterns == {"", "."}
\* -docker-nocache: empty, a well-formed regexp, a regexp with a syntax error
NoCachePatterns == {"", "geth", "("}
ClientIds == {"geth", "parity"}
Tests == {"t1"}
\* outcome of one (client, test) execution; "unsupported" is a result value
\* that encoding/json refuses to encode (UnsupportedValueError)
TestOutcomes == {"pass", "fail", "unsupported"}
NoSelection == "-"
\* the image makeGenesisDAG builds, and all images of a run
DAGImage == "ethash"
Images == ClientIds \cup {DAGImage}

EmptyMap == [x \in {} |-> x]
nil == [kind |-> "nil", client |-> "", msg |-> ""]
BuildErr(c) == [kind |-> "buildError", client |-> c, msg |-> "build failed"]
OtherErr == [kind |-> "error", client |-> "", msg |-> "failed"]

VARIABLES
    pc,                     \* position of the run inside main / mainInHost
    noShellContainer, noCachePattern, smokeFlag,
    validatorPattern, simulatorPattern, benchmarkPattern,
    dockerTimeout, dockerTimeoutDuration,
    timeoutCheck, timeoutCheckDuration,
    cacher,                 \* the buildCacher of the run, "nil" before creation
    err,                    \* main's err variable
    fail,                   \* main's fail variable (result of mainInHost/mainInShell)
    results,                \* mainInHost's results struct
    stdout,                 \* reports printed with fmt.Println
    exitCode,               \* process exit status, meaningful once pc = "done"
    calls,                  \* history of phase invocations made by mainInHost
    rebuilt,                \* the buildCacher's memo: images already force-rebuilt
    forced,                 \* history: forced builds made, per image
    requests                \* history: build requests put to the cacher, per image

flags == <<noShellContainer, noCachePattern, smokeFlag, validatorPattern,
           simulatorPattern, benchmarkPattern, dockerTimeout, timeoutCheck>>
durations == <<dockerTimeoutDuration, timeoutCheckDuration>>
builds == <<rebuilt, forced, requests>>
vars == <<pc, flags, durations, cacher, err, fail, results, stdout, exitCode, calls, builds>>

EmptyResults ==
    [Clients |-> EmptyMap, Validations |-> EmptyMap,
     Simulations |-> EmptyMap, Benchmarks |-> EmptyMap]

\* Package-level variable initialisation: every flag holds its default and
\* the two durations are computed from the flag values of that moment.
Init ==
    /\ pc = "main"
    /\ noShellContainer = FALSE
    /\ noCachePattern = ""
    /\ smokeFlag = FALSE
    /\ validatorPattern = DefaultValidatorPattern
    /\ simulatorPattern = ""
    /\ benchmarkPattern = ""
    /\ dockerTimeout = DefaultDockerTimeout
    /\ dockerTimeoutDuration = DefaultDockerTimeout * Minute
    /\ timeoutCheck = DefaultTimeoutCheck
    /\ timeoutCheckDuration = DefaultTimeoutCheck * Second
    /\ cacher = "nil"
    /\ err = "nil"
    /\ fail = nil
    /\ results = EmptyResults
    /\ stdout = <<>>
    /\ exitCode = 0
    /\ calls = <<>>
    /\ rebuilt = {}
    /\ forced = [i \in Images |-> 0]
    /\ requests = [i \in Images |-> 0]

\* flag.Parse(): the command line overwrites the flag values, nothing else.
FlagParse ==
    /\ pc = "main"
    /\ noShellContainer' \in BOOLEAN
    /\ noCachePattern' \in NoCachePatterns
    /\ smokeFlag' \in BOOLEAN
    /\ validatorPattern' \in Patterns
    /\ simulatorPattern' \in Patterns
    /\ benchmarkPattern' \in Patterns
    /\ dockerTimeout' \in {DefaultDockerTimeout} \cup (1..MaxDockerTimeout)
    /\ timeoutCheck' \in {DefaultTimeoutCheck} \cup (1..MaxTimeoutCheck)
    /\ pc' = "NewClient"
    /\ UNCHANGED <<durations, cacher, err, fail, results, stdout, exitCode, calls, builds>>

\* A plain return from main ends the process with status 0.
ReturnFromMain == 0

\* docker.NewClient(*dockerEndpoint)
NewClient ==
    /\ pc = "NewClient"
    /\ \E e \in {"nil", "RuntimeError"} :
        /\ err' = e
        /\ IF e # "nil"
              THEN pc' = "done" /\ exitCode' = ReturnFromMain
              ELSE pc' = "Version" /\ UNCHANGED exitCode
    /\ UNCHANGED <<flags, durations, cacher, fail, results, stdout, calls, builds>>

\* daemon.Version()
DaemonVersion ==
    /\ pc = "Version"
    /\ \E e \in {"nil", "RuntimeError"} :
        /\ err' = e
        /\ IF e # "nil"
              THEN pc' = "done" /\ exitCode' = ReturnFromMain
              ELSE pc' = "newBuildCacher" /\ UNCHANGED exitCode
    /\ UNCHANGED <<flags, durations, cacher, fail, results, stdout, calls, builds>>

\* newBuildCacher(*noCachePattern): compiles the pattern when the cacher is
\* constructed; a pattern with a syntax error yields an error and no cacher.
Malformed(pattern) == pattern = "("
newBuildCacher(pattern) == IF Malformed(pattern) THEN "ConfigError" ELSE "nil"

\* main's test of newBuildCacher's error
CacherFailedIgnored(e) == FALSE
CacherFailed(e) == e # "nil"

\* overrides / newBuildCacher, then the choice between host and shell mode
NewBuildCacher ==
    /\ pc = "newBuildCacher"
    /\ LET e == newBuildCacher(noCachePattern) IN
        /\ err' = e
        /\ cacher' = IF e = "nil" THEN "buildCacher" ELSE "nil"
        /\ IF CacherFailed(e)
              THEN pc' = "done" /\ exitCode' = ReturnFromMain
              ELSE /\ pc' = IF noShellContainer THEN "mainInHost" ELSE "mainInShell"
                   /\ UNCHANGED exitCode
    /\ UNCHANGED <<flags, durations, fail, results, stdout, calls, builds>>

\* mainInShell(daemon, overrides, cacher): the outer container shell; only its
\* returned error is visible to main.
MainInShell ==
    /\ pc = "mainInShell"
    /\ fail' \in {nil, OtherErr}
    /\ pc' = "exit"
    /\ UNCHANGED <<flags, durations, cacher, err, results, stdout, exitCode, calls, builds>>

\* ------------------------------------------------------------ JSON report
JsonTags == {"clients", "validations", "simulations", "benchmarks"}
Section(r, tag) ==
    CASE tag = "clients" -> r.Clients
      [] tag = "validations" -> r.Validations
      [] tag = "simulations" -> r.Simulations
      [] tag = "benchmarks" -> r.Benchmarks

CategoryTags == {"validations", "simulations", "benchmarks"}
Unsupported(r) ==
    \E tag \in CategoryTags :
        \E c \in DOMAIN Section(r, tag) :
            \E t \in DOMAIN Section(r, tag)[c] :
                Section(r, tag)[c][t] = "unsupported"

\* json.MarshalIndent(results, "", "  "): every field is tagged omitempty, so
\* an empty (or nil) map leaves no key in the output; a value the encoder
\* cannot encode makes the call fail with no output.
MarshalIndent(r) ==
    IF Unsupported(r)
       THEN [err |-> "error", out |-> EmptyMap]
       ELSE [err |-> "nil",
             out |-> [tag \in {t \in JsonTags : Section(r, t) # EmptyMap}
                          |-> Section(r, tag)]]

\* ------------------------------------------------------------ build cacher
\* whether the rebuild-exclusion pattern selects the image; the empty pattern
\* selects nothing
Matches(pattern, image) == pattern # "" /\ pattern = image

\* buildCacher: an image is force-rebuilt when the pattern selects it and the
\* memo does not hold it yet
shouldRebuild(memo, pattern, image) == Matches(pattern, image) /\ image \notin memo

\* the cacher mainInHost hands to a phase: the one main created
CacherArgFresh(memo) == {}
CacherArg(memo) == memo

\* a phase that needs the images imgs asks the cacher it was handed for each
UseCacher(imgs) ==
    LET memo == CacherArg(rebuilt)
        now == {i \in imgs : shouldRebuild(memo, noCachePattern, i)}
    IN /\ rebuilt' = memo \cup now
       /\ forced' = [i \in Images |-> forced[i] + (IF i \in now THEN 1 ELSE 0)]
       /\ requests' = [i \in Images |-> requests[i] + (IF i \in imgs THEN 1 ELSE 0)]

\* --------------------------------------------------------- client resolver
VersionInfo == [k \in {"commit"} |-> "abc123"]
Versions(S) == [c \in S |-> VersionInfo]

\* fetchClientVersions(daemon, *clientPattern, cacher): the resolved clients,
\* or the clients resolved so far together with an error
FetchOutcomes ==
    {[clients |-> Versions(S), err |-> nil] : S \in SUBSET ClientIds}
    \cup {[clients |-> Versions(S), err |-> BuildErr(c)] :
             S \in SUBSET ClientIds, c \in ClientIds}
    \cup {[clients |-> Versions(S), err |-> OtherErr] : S \in SUBSET ClientIds}

\* err.(*buildError)
IsBuildErrorAny(e) == TRUE
IsBuildError(e) == e.kind = "buildError"

\* results.Clients = make(...); results.Clients[b.Client()] = {"error": b.Error()}
ClientErrorKeep(partial, b) ==
    [c \in DOMAIN partial \cup {b.client} |->
        IF c = b.client THEN [k \in {"error"} |-> b.msg] ELSE partial[c]]
ClientError(partial, b) ==
    [c \in {b.client} |-> [k \in {"error"} |-> b.msg]]

Call(phase, sel, ok) == [phase |-> phase, sel |-> sel, ok |-> ok]

\* (variants of the three tests of the category patterns)
AfterSimulationsAlways == "benchmark"
AfterSimulationsSkip == "report"
AfterValidationsAlways == "makeGenesisDAG"
\* where mainInHost continues after each step that succeeded or was skipped
AfterSimulations == IF benchmarkPattern # "" THEN "benchmark" ELSE "report"
AfterValidations == IF simulatorPattern # "" THEN "makeGenesisDAG" ELSE AfterSimulations
AfterClients ==
    IF smokeFlag THEN "smokeValidate"
    ELSE IF validatorPattern # "" THEN "validate" ELSE AfterValidations

\* mainInHost, "Retrieve the versions of all clients being tested"
FetchClientVersions ==
    /\ pc = "mainInHost"
    /\ \E f \in FetchOutcomes :
        /\ calls' = Append(calls, Call("fetchClientVersions", DefaultClientPattern, f.err = nil))
        /\ UseCacher(DOMAIN f.clients \cup
                        (IF f.err.kind = "buildError" THEN {f.err.client} ELSE {}))
        /\ IF f.err # nil
              THEN /\ IF IsBuildError(f.err)
                         THEN LET r == [results EXCEPT !.Clients = ClientError(f.clients, f.err)]
                                  m == MarshalIndent(r)
                              IN /\ results' = r
                                 /\ stdout' = IF m.err # "nil" THEN stdout
                                              ELSE Append(stdout, m.out)
                         ELSE /\ results' = [results EXCEPT !.Clients = f.clients]
                              /\ UNCHANGED stdout
                   /\ fail' = f.err
                   /\ pc' = "exit"
              ELSE /\ results' = [results EXCEPT !.Clients = f.clients]
                   /\ pc' = AfterClients
                   /\ UNCHANGED <<fail, stdout>>
    /\ UNCHANGED <<flags, durations, cacher, err, exitCode>>

\* ------------------------------------------------------- category runners
\* validateClients / simulateClients / benchmarkClients(daemon, *clientPattern,
\* selection, overrides, cacher): a map client -> test -> result (empty when
\* the selection matches no test), or an error
CategoryOutcomes(clients) ==
    {[res |-> EmptyMap, err |-> nil], [res |-> EmptyMap, err |-> OtherErr]}
    \cup {[res |-> [c \in DOMAIN clients |-> [t \in Tests |-> o[c]]], err |-> nil] :
             o \in [DOMAIN clients -> TestOutcomes]}

\* makeGenesisDAG(daemon, cacher)
DAGOutcomes == {nil, OtherErr}

\* the selection argument handed to the runners in smoke mode
SmokeArgFromPattern(pattern) == pattern
SmokeArg(pattern) == SmokeSelection

\* (variant: the runner's result replaces the other categories' sections)
RunCategoryOverwrite(phase, field, sel, next) ==
    /\ \E o \in CategoryOutcomes(results.Clients) :
        /\ calls' = Append(calls, Call(phase, sel, o.err = nil))
        /\ results' = [[EmptyResults EXCEPT !.Clients = results.Clients]
                          EXCEPT ![field] = o.res]
        /\ UseCacher(DOMAIN o.res)
        /\ IF o.err # nil
              THEN fail' = o.err /\ pc' = "exit"
              ELSE pc' = next /\ UNCHANGED fail
    /\ UNCHANGED <<flags, durations, cacher, err, stdout, exitCode>>

\* (variant: the runner's error is recorded but mainInHost does not return)
RunCategoryContinue(phase, field, sel, next) ==
    /\ \E o \in CategoryOutcomes(results.Clients) :
        /\ calls' = Append(calls, Call(phase, sel, o.err = nil))
        /\ results' = [results EXCEPT ![field] = o.res]
        /\ UseCacher(DOMAIN o.res)
        /\ fail' = IF o.err # nil THEN o.err ELSE fail
        /\ pc' = next
    /\ UNCHANGED <<flags, durations, cacher, err, stdout, exitCode>>

\* if results.X, err = xClients(..., sel, ...); err != nil { return err }
RunCategory(phase, field, sel, next) ==
    /\ \E o \in CategoryOutcomes(results.Clients) :
        /\ calls' = Append(calls, Call(phase, sel, o.err = nil))
        /\ results' = [results EXCEPT ![field] = o.res]
        /\ UseCacher(DOMAIN o.res)
        /\ IF o.err # nil
              THEN fail' = o.err /\ pc' = "exit"
              ELSE pc' = next /\ UNCHANGED fail
    /\ UNCHANGED <<flags, durations, cacher, err, stdout, exitCode>>

SmokeValidate ==
    /\ pc = "smokeValidate"
    /\ RunCategory("validateClients", "Validations",
                SmokeArg(validatorPattern), "smokeSimulate")

SmokeSimulate ==
    /\ pc = "smokeSimulate"
    /\ RunCategory("simulateClients", "Simulations",
                SmokeArg(simulatorPattern), "smokeBenchmark")

SmokeBenchmark ==
    /\ pc = "smokeBenchmark"
    /\ RunCategory("benchmarkClients", "Benchmarks",
                SmokeArg(benchmarkPattern), "report")

Validate ==
    /\ pc = "validate"
    /\ RunCategory("validateClients", "Validations",
                validatorPattern, AfterValidations)

MakeGenesisDAG ==
    /\ pc = "makeGenesisDAG"
    /\ \E e \in DAGOutcomes :
        /\ calls' = Append(calls, Call("makeGenesisDAG", NoSelection, e = nil))
        /\ UseCacher({DAGImage})
        /\ IF e # nil
              THEN fail' = e /\ pc' = "exit"
              ELSE pc' = "simulate" /\ UNCHANGED fail
    /\ UNCHANGED <<flags, durations, cacher, err, results, stdout, exitCode>>

Simulate ==
    /\ pc = "simulate"
    /\ RunCategory("simulateClients", "Simulations",
                simulatorPattern, AfterSimulations)

\* (variant: the benchmark block placed ahead of the simulation block)
BenchmarkBeforeSimulate ==
    /\ pc = "makeGenesisDAG"
    /\ \A i \in 1..Len(calls) : calls[i].phase # "benchmarkClients"
    /\ RunCategory("benchmarkClients", "Benchmarks",
                benchmarkPattern, "makeGenesisDAG")

Benchmark ==
    /\ pc = "benchmark"
    /\ RunCategory("benchmarkClients", "Benchmarks",
                benchmarkPattern, "report")

\* mainInHost, "Flatten the results and print them in JSON form"
Report ==
    /\ pc = "report"
    /\ LET m == MarshalIndent(results) IN
        IF m.err # "nil"
           THEN fail' = OtherErr /\ UNCHANGED stdout
           ELSE fail' = nil /\ stdout' = Append(stdout, m.out)
    /\ pc' = "exit"
    /\ UNCHANGED <<flags, durations, cacher, err, results, exitCode, calls, builds>>

\* os.Exit(code): the process status is the low byte of code
ExitStatus(code) == code % 256

\* main, "if fail != nil { os.Exit(-1) }", else main returns
Exit ==
    /\ pc = "exit"
    /\ exitCode' = IF fail # nil THEN ExitStatus(-1) ELSE ReturnFromMain
    /\ pc' = "done"
    /\ UNCHANGED <<flags, durations, cacher, err, fail, results, stdout, calls, builds>>

Next ==
    \/ FlagParse
    \/ NewClient
    \/ DaemonVersion
    \/ NewBuildCacher
    \/ MainInShell
    \/ FetchClientVersions
    \/ SmokeValidate
    \/ SmokeSimulate
    \/ SmokeBenchmark
    \/ Validate
    \/ MakeGenesisDAG
    \/ Simulate
    \/ Benchmark
    \/ Report
    \/ Exit

Spec == Init /\ [][Next]_vars

TypeOK ==
    /\ pc \in {"main", "NewClient", "Version", "newBuildCacher", "mainInShell",
               "mainInHost", "smokeValidate", "smokeSimulate", "smokeBenchmark",
               "validate", "makeGenesisDAG", "simulate", "benchmark", "report",
               "exit", "done"}
    /\ exitCode \in {0, 255}
    /\ Len(stdout) <= 1

\* ------------------------------------------------------------- properties
\* The first call mainInHost makes is fetchClientVersions.
ResolutionFailed == calls # <<>> /\ ~calls[1].ok
ClientBuildFailed == ResolutionFailed /\ fail.kind = "buildError"
HostRunEnded == noShellContainer /\ pc = "done"
Started(phase) == \E i \in 1..Len(calls) : calls[i].phase = phase

\* C1: when client resolution fails with a client build error, one report is
\* printed; its only section is clients, holding exactly the failing client
\* mapped to an object with an error field (validations, simulations and
\* benchmarks are empty), and fetchClientVersions stays the only step the
\* run ever started.
C1_ClientBuildFailureReport ==
    ClientBuildFailed =>
        /\ Len(stdout) = 1
        /\ DOMAIN stdout[1] = {"clients"}
        /\ DOMAIN stdout[1]["clients"] = {fail.client}
        /\ "error" \in DOMAIN stdout[1]["clients"][fail.client]
        /\ Len(calls) = 1
        /\ pc \in {"exit", "done"}

C1_Witness == ClientBuildFailed /\ pc = "done" /\ Len(stdout) = 1

\* C2 (as claimed): a finished run has exit code zero exactly when the full
\* report was produced.
C2_ExitZeroIffFullReport ==
    HostRunEnded =>
        ((exitCode = 0) <=> (stdout # <<>> /\ calls # <<>> /\ calls[1].ok))

\* C3 (as claimed): a run aborted by a ConfigError, a RuntimeError or a
\* client-level BuildError ends with a report printed or a non-zero exit code.
C3_AbortReportsOrFails ==
    (pc = "done" /\ (err # "nil" \/ ClientBuildFailed)) =>
        (stdout # <<>> \/ exitCode # 0)

\* C4 (as claimed): every simulateClients invocation, in smoke mode or not,
\* is preceded by a makeGenesisDAG invocation that succeeded.
C4_DAGBeforeSimulation ==
    \A i \in 1..Len(calls) :
        calls[i].phase = "simulateClients" =>
            \E j \in 1..(i - 1) : calls[j].phase = "makeGenesisDAG" /\ calls[j].ok

DAGFailed ==
    \E i \in 1..Len(calls) : calls[i].phase = "makeGenesisDAG" /\ ~calls[i].ok

\* C5 (as claimed): when makeGenesisDAG fails no simulation is run, and the
\* validation results completed before it appear in the report the run emits.
C5_DAGFailureKeepsValidations ==
    (DAGFailed /\ pc = "done") =>
        /\ ~Started("simulateClients")
        /\ results.Validations # EmptyMap =>
              /\ Len(stdout) = 1
              /\ "validations" \in DOMAIN stdout[1]
              /\ stdout[1]["validations"] = results.Validations

\* C6 (as claimed): on every fatal client resolver error, whatever its kind,
\* a report with the single client-level error payload is printed.
C6_AnyResolverErrorReported ==
    ResolutionFailed =>
        /\ Len(stdout) = 1
        /\ DOMAIN stdout[1] = {"clients"}
        /\ Cardinality(DOMAIN stdout[1]["clients"]) = 1

\* C6 (amended): on a resolver error that is a client build error the clients
\* resolved so far are discarded and the printed report carries the single
\* client-level error payload; on a resolver error of any other kind nothing
\* is printed.
C6_BuildErrorOnlyReported ==
    ResolutionFailed =>
        IF fail.kind = "buildError"
           THEN /\ results.Clients = [c \in {fail.client} |-> [k \in {"error"} |-> fail.msg]]
                /\ stdout = << [tag \in {"clients"} |-> results.Clients] >>
           ELSE stdout = <<>>

C6_Witness == ResolutionFailed /\ fail.kind = "error" /\ pc = "done"

\* C7 (as claimed): once the flags are parsed, the per-container timeout in
\* effect is the configured -dockertimeout, in minutes.
C7_TimeoutMatchesFlag ==
    pc # "main" => dockerTimeoutDuration = dockerTimeout * Minute

\* C8 (as claimed): once the flags are parsed, the watchdog poll interval in
\* effect is the configured -timeoutcheck, in seconds.
C8_PollIntervalMatchesFlag ==
    pc # "main" => timeoutCheckDuration = timeoutCheck * Second

\* C9: with a malformed rebuild-exclusion pattern the run gets no further
\* than constructing the cacher: no cacher exists, no client resolution, DAG
\* step or category is ever started, and the run ends with main's err set.
C9_MalformedPatternStopsBeforeWork ==
    Malformed(noCachePattern) =>
        /\ calls = <<>>
        /\ cacher = "nil"
        /\ pc \in {"NewClient", "Version", "newBuildCacher", "done"}
        /\ pc = "done" => err # "nil"

C9_Witness == Malformed(noCachePattern) /\ pc = "done" /\ err = "ConfigError"

\* what a smoke run invokes, in order, whatever the three category patterns
SmokePlan ==
    << <<"fetchClientVersions", ":master">>, <<"validateClients", "smoke/">>,
       <<"simulateClients", "smoke/">>, <<"benchmarkClients", "smoke/">> >>

\* C10: in smoke mode the invocations made so far are a prefix of the fixed
\* smoke plan (every category restricted to smoke/), each one started only
\* after all earlier ones succeeded, and the run stops short of the full plan
\* only when an invocation failed; the category patterns appear nowhere, so
\* two smoke runs that differ only in them make the same invocations.
C10_SmokeIgnoresPatterns ==
    smokeFlag =>
        /\ Len(calls) <= Len(SmokePlan)
        /\ \A i \in 1..Len(calls) :
              /\ <<calls[i].phase, calls[i].sel>> = SmokePlan[i]
              /\ i < Len(calls) => calls[i].ok
        /\ pc = "report" => Len(calls) = Len(SmokePlan)
        /\ (pc \in {"exit", "done"} /\ calls # <<>>) =>
              (Len(calls) = Len(SmokePlan) \/ ~calls[Len(calls)].ok)

C10_Witness ==
    /\ smokeFlag
    /\ validatorPattern = ""
    /\ simulatorPattern = "."
    /\ Len(calls) = Len(SmokePlan)
    /\ pc = "done"


\* a step in which mainInHost invokes the given phase
Invokes(phase) ==
    /\ Len(calls') = Len(calls) + 1
    /\ calls'[Len(calls')].phase = phase

\* C11: each category phase writes only its own section of results and leaves
\* the clients section and the other two categories' sections as they were,
\* and the full report prints every section exactly as results holds it, so
\* what the report holds for a category is what that category's phase wrote,
\* whichever phases ran before or after it.
C11_CategoriesMergeAdditively ==
    [][ /\ Invokes("validateClients") =>
              /\ results'.Clients = results.Clients
              /\ results'.Simulations = results.Simulations
              /\ results'.Benchmarks = results.Benchmarks
        /\ Invokes("simulateClients") =>
              /\ results'.Clients = results.Clients
              /\ results'.Validations = results.Validations
              /\ results'.Benchmarks = results.Benchmarks
        /\ Invokes("benchmarkClients") =>
              /\ results'.Clients = results.Clients
              /\ results'.Validations = results.Validations
              /\ results'.Simulations = results.Simulations
        /\ (pc = "report" /\ stdout' # stdout) =>
              /\ results' = results
              /\ \A tag \in JsonTags :
                    IF tag \in DOMAIN stdout'[Len(stdout')]
                       THEN stdout'[Len(stdout')][tag] = Section(results, tag)
                       ELSE Section(results, tag) = EmptyMap
      ]_vars

C11_Witness ==
    /\ Len(stdout) = 1
    /\ DOMAIN stdout[1] = JsonTags
    /\ pc = "done"


\* C12: every phase is handed the cacher main created, and under it an image
\* is force-rebuilt at most once in a run: exactly once when the
\* rebuild-exclusion pattern selects it and some phase asked for it, however
\* many phases asked, and never otherwise.
C12_ForcedBuildOnce ==
    /\ calls # <<>> => cacher = "buildCacher"
    /\ rebuilt = {i \in Images : forced[i] = 1}
    /\ \A i \in Images :
          /\ forced[i] <= 1
          /\ forced[i] = 1 <=> (requests[i] >= 1 /\ Matches(noCachePattern, i))

C12_Witness ==
    /\ Matches(noCachePattern, "geth")
    /\ requests["geth"] >= 3
    /\ forced["geth"] = 1
    /\ pc = "done"


\* position of each phase in mainInHost
Rank(phase) ==
    CASE phase = "fetchClientVersions" -> 0
      [] phase = "validateClients" -> 1
      [] phase = "makeGenesisDAG" -> 2
      [] phase = "simulateClients" -> 3
      [] phase = "benchmarkClients" -> 4

\* C13: the invocations of a run are made one after the other in the fixed
\* order client resolution, validation, (DAG,) simulation, benchmark, and a
\* phase is started only after every phase before it returned without error;
\* in particular client resolution succeeded before any category started.
C13_PhaseOrder ==
    /\ calls # <<>> => calls[1].phase = "fetchClientVersions"
    /\ \A i, j \in 1..Len(calls) :
          i < j => (Rank(calls[i].phase) < Rank(calls[j].phase) /\ calls[i].ok)

C13_Witness ==
    /\ ~smokeFlag
    /\ Len(calls) = 5
    /\ calls[5].phase = "benchmarkClients"
    /\ pc = "done"

\* C14: makeGenesisDAG is invoked at most once in a run, never when the
\* simulation pattern is empty outside smoke mode, and never after client
\* resolution or validation failed.
C14_DAGAtMostOnce ==
    /\ Cardinality({i \in 1..Len(calls) : calls[i].phase = "makeGenesisDAG"}) <= 1
    /\ (simulatorPattern = "" /\ ~smokeFlag) => ~Started("makeGenesisDAG")
    /\ (\E i \in 1..Len(calls) :
           /\ calls[i].phase \in {"fetchClientVersions", "validateClients"}
           /\ ~calls[i].ok)
       => ~Started("makeGenesisDAG")

C14_Witness ==
    /\ Started("validateClients")
    /\ Started("makeGenesisDAG")
    /\ pc = "done"

\* the three categories: runner, report section and selecting pattern
Categories ==
    {[phase |-> "validateClients", tag |-> "validations", pattern |-> validatorPattern],
     [phase |-> "simulateClients", tag |-> "simulations", pattern |-> simulatorPattern],
     [phase |-> "benchmarkClients", tag |-> "benchmarks", pattern |-> benchmarkPattern]}

AllCallsSucceeded == calls # <<>> /\ \A i \in 1..Len(calls) : calls[i].ok

\* C15: outside smoke mode a category is started only if its pattern is
\* non-empty, a run in which every started phase succeeded has started every
\* category whose pattern is non-empty, and a category whose pattern is empty
\* keeps an empty section in results and in whatever report is printed.
C15_CategoryRunsIffPatternSet ==
    ~smokeFlag =>
        \A cat \in Categories :
            /\ Started(cat.phase) => cat.pattern # ""
            /\ ((pc \in {"report", "exit", "done"} /\ AllCallsSucceeded
                    /\ cat.pattern # "") => Started(cat.phase))
            /\ cat.pattern = "" =>
                  /\ Section(results, cat.tag) = EmptyMap
                  /\ \A k \in 1..Len(stdout) : cat.tag \notin DOMAIN stdout[k]

C15_Witness ==
    /\ ~smokeFlag
    /\ validatorPattern = ""
    /\ simulatorPattern # ""
    /\ benchmarkPattern = ""
    /\ Len(stdout) = 1
    /\ DOMAIN stdout[1] = {"clients", "simulations"}
    /\ pc = "done"

CategoryPhases == {"validateClients", "simulateClients", "benchmarkClients"}

\* C16: when a category phase returns an error it is the last step the run
\* starts, nothing is printed (the results of the categories completed
\* before it included), and the run ends with a non-zero exit code.
C16_CategoryErrorStopsRun ==
    \A i \in 1..Len(calls) :
        (calls[i].phase \in CategoryPhases /\ ~calls[i].ok) =>
            /\ i = Len(calls)
            /\ stdout = <<>>
            /\ pc \in {"exit", "done"}
            /\ pc = "done" => exitCode # 0

C16_Witness ==
    /\ Len(calls) >= 3
    /\ calls[Len(calls)].phase \in CategoryPhases
    /\ ~calls[Len(calls)].ok
    /\ results.Validations # EmptyMap
    /\ pc = "done"

\* C17: at most one report is printed in a run; it is either the client-error
\* report of a failed resolution, or the full report, printed after every
\* phase succeeded and every selected category (all three in smoke mode, the
\* ones with a non-empty pattern otherwise) has been run, as the last step
\* of mainInHost.
C17_ReportAtMostOnce ==
    /\ Len(stdout) <= 1
    /\ stdout # <<>> =>
          IF ClientBuildFailed
             THEN Len(calls) = 1 /\ DOMAIN stdout[1] = {"clients"}
             ELSE /\ AllCallsSucceeded
                  /\ \A cat \in Categories :
                        (smokeFlag \/ cat.pattern # "") => Started(cat.phase)
                  /\ pc \in {"exit", "done"}
                  /\ fail = nil

C17_Witness ==
    /\ ~smokeFlag
    /\ benchmarkPattern # ""
    /\ Len(stdout) = 1
    /\ AllCallsSucceeded
    /\ pc = "done"

====
